---------------------------- MODULE Spec2Model ----------------------------
(***************************************************************************)
(* A model of daspy/advanced_tools/channel.py: bad-channel classification  *)
(* (channel_checking, _continuity_checking), channel geometry              *)
(* (channel_location, location_interpolation) and turning points           *)
(* (_horizontal_angle_change, _local_maximum_indexes, turning_points).     *)
(*                                                                         *)
(* Each function is a small state machine over the shared variables; one   *)
(* specification per entry point:                                          *)
(*   SpecCont   one call of _continuity_checking                           *)
(*   SpecCheck  channel_checking                                           *)
(*   SpecTurn   turning_points                                             *)
(*   SpecChanLoc  channel_location                                         *)
(*   SpecLoc    location_interpolation                                     *)
(* Python lists are sequences (1-based here, 0-based channel VALUES).      *)
(***************************************************************************)
EXTENDS Integers, Sequences, FiniteSets, TLC

VARIABLES
    pc,          \* position in the function being run
    outcome,     \* "running", "returned" or the name of the exception raised
    \* ---- channel_checking / _continuity_checking
    nch,         \* len(data)
    deviation,   \* energy - fitted_energy, per channel (channel.py:77)
    mad,         \* np.median(abs(deviation[weights > 0])) (channel.py:80)
    continuity,  \* keyword argument
    adjacent,    \* keyword argument
    toleration,  \* keyword argument
    good_chn,    \* list
    bad_chn,     \* list
    pass,        \* 0: a direct call, 1/2: first/second call from channel_checking
    lst1,        \* first list argument (mutated in place)
    lst2,        \* second list argument (mutated in place)
    lst1_raw,    \* deepcopy(lst1) taken on entry
    lst2_raw,    \* history: lst2 as it was on entry
    k,           \* position of the for loop in lst1_raw (1-based)
    \* ---- turning_points
    data_type,   \* argument of turning_points / location_interpolation
    depth_info,  \* keyword argument
    tp_thresh,   \* the thresh argument of turning_points
    tp_nch,      \* len(data) / len(geo)
    angle,       \* np.zeros(nch), filled by the angle-change loops (0-based)
    tp_i,        \* loop variable of the angle-change and cross-correlation loops
    cc,          \* adjacent-channel cross-correlations, in hundredths (0-based)
    lm,          \* history: the latest call of _local_maximum_indexes
    turning_h,   \* result of the horizontal search
    turning_v,   \* result of the vertical search
    tp_ret,      \* value returned in waveform mode, in half channels
    \* ---- location_interpolation / channel_location
    \* (coordinates and lengths are integers or exact fractions <<num, den>>)
    known_pt,    \* argument: list of <<coord_a, coord_b, channel number>>
    track_pt,    \* argument: list of <<coord_a, coord_b>> (<<>> when None)
    has_track,   \* track_pt is not None
    dx,          \* argument
    caller,      \* "direct": channel_location alone; "li": location_interpolation
    bound,       \* the local names of location_interpolation bound so far
    zone,        \* UTM zone of DASProj
    kx, ky, kn,  \* known points, planar (0-based arrays)
    li_i,        \* loop variable of the stamping loop
    last_pt,     \* index of the vertex stamped last (meaningful once bound)
    tx, ty, tn,  \* the track handed to channel_location (0-based arrays)
    interp_ch,   \* list of entries [x, y, chn, depth]; depth 2 is [[x, y, chn]]
    interp_arc,  \* history: kind, segment and arc length of each entry
    seg_interval,\* list of <<tn[istart], tn[iend], d_interp>>
    cl_chn,      \* chn: the running channel number
    seg_i,       \* loop variable i over the anchor pairs
    cl_j,        \* loop variable j over the edges of a pair
    l_res,       \* remaining fiber length carried to the next edge
    chn_res,     \* fractional part of the start anchor's channel number
    d_interp,    \* channel spacing of the current anchor pair
    arr,         \* what np.array(interp_ch) is: "none" until built
    ret          \* value returned: "none" (nothing yet), "None" or "array"

ccVars == <<nch, deviation, mad, continuity, adjacent, toleration, good_chn,
            bad_chn, pass, lst1, lst2, lst1_raw, lst2_raw, k>>

tpVars == <<data_type, depth_info, tp_thresh, tp_nch, angle, tp_i, cc, lm,
            turning_h, turning_v, tp_ret>>

locVars == <<known_pt, track_pt, has_track, dx, caller, bound, zone, kx, ky,
             kn, li_i, last_pt, tx, ty, tn, interp_ch, interp_arc,
             seg_interval, cl_chn, seg_i, cl_j, l_res, chn_res, d_interp, arr,
             ret>>

vars == <<pc, outcome, ccVars, tpVars, locVars>>

-----------------------------------------------------------------------------
(* Bounds of the model.                                                    *)
NCh == 4
MaxAdjacent == 2
MaxToleration == 2
NChTurn == 5

(* thresh=5, the default of channel_checking.                              *)
thresh == 5

-----------------------------------------------------------------------------
(* Generic helpers for Python lists.                                       *)

Range(s) == {s[i] : i \in DOMAIN s}

NoDup(s) == Cardinality(Range(s)) = Len(s)

Abs(x) == IF x < 0 THEN -x ELSE x

RECURSIVE Filter(_, _)
\* [a for a in s if P(a)] for the predicate given as the set keep
Filter(s, keep) ==
    IF s = <<>> THEN <<>>
    ELSE IF Head(s) \in keep THEN <<Head(s)>> \o Filter(Tail(s), keep)
         ELSE Filter(Tail(s), keep)

RECURSIVE ListRemove(_, _)
\* list.remove(x): drops the first occurrence of x
ListRemove(s, x) ==
    IF s = <<>> THEN <<>>
    ELSE IF Head(s) = x THEN Tail(s)
         ELSE <<Head(s)>> \o ListRemove(Tail(s), x)

RECURSIVE Insert(_, _)
Insert(s, x) ==
    IF s = <<>> THEN <<x>>
    ELSE IF x <= Head(s) THEN <<x>> \o s
         ELSE <<Head(s)>> \o Insert(Tail(s), x)

RECURSIVE Sort(_)
\* np.sort: ascending, duplicates kept
Sort(s) == IF s = <<>> THEN <<>> ELSE Insert(Sort(Tail(s)), Head(s))

RECURSIVE SetToSortedSeq(_)
SetToSortedSeq(S) ==
    IF S = {} THEN <<>>
    ELSE LET m == CHOOSE x \in S : \A y \in S : x <= y
         IN <<m>> \o SetToSortedSeq(S \ {m})

\* every listing of the set S without repetition
Perms(S) ==
    {s \in [1..Cardinality(S) -> S] : \A i, j \in DOMAIN s : i # j => s[i] # s[j]}

\* all duplicate-free lists over the values of S
ListsOver(S) == UNION {Perms(T) : T \in SUBSET S}

-----------------------------------------------------------------------------
(* _continuity_checking, channel.py:42-50                                  *)

\* faulty variants of MoveChannel: the remove, or the append, left out
MoveNoRemove(l1, l2, chn) == <<l1, Append(l2, chn)>>

MoveNoAppend(l1, l2, chn) == <<ListRemove(l1, chn), l2>>

\* lst1.remove(chn); lst2.append(chn)

MoveChannel(l1, l2, chn) == <<ListRemove(l1, chn), Append(l2, chn)>>

\* faulty variant of Discont: the window without its two ends
DiscontExclusive(l2, chn, adj) ==
    Filter(l2, {a \in Range(l2) : Abs(a - chn) < adj})

\* discont = [a for a in lst2 if abs(a - chn) <= adjacent]
Discont(l2, chn, adj) == Filter(l2, {a \in Range(l2) : Abs(a - chn) <= adj})

\* the body of the for loop, for one chn of lst1_raw
ContinuityIter(l1, l2, chn, adj, tol) ==
    IF Len(Discont(l2, chn, adj)) >= adj * 2 + 1 - tol
    THEN MoveChannel(l1, l2, chn)
    ELSE <<l1, l2>>

\* entry: lst1_raw = deepcopy(lst1)
Enter(a, b, p) ==
    /\ lst1' = a
    /\ lst2' = b
    /\ lst1_raw' = a
    /\ lst2_raw' = b
    /\ k' = 1
    /\ pass' = p

ContinuityStep ==
    /\ pc = "loop"
    /\ k <= Len(lst1_raw)
    /\ LET r == ContinuityIter(lst1, lst2, lst1_raw[k], adjacent, toleration)
       IN /\ lst1' = r[1]
          /\ lst2' = r[2]
    /\ k' = k + 1
    /\ UNCHANGED <<pc, outcome, nch, deviation, mad, continuity, adjacent,
                   toleration, good_chn, bad_chn, pass, lst1_raw, lst2_raw>>
    /\ UNCHANGED <<tpVars, locVars>>

\* return lst1, lst2 (a direct call)
ContinuityReturn ==
    /\ pc = "loop"
    /\ pass = 0
    /\ k > Len(lst1_raw)
    /\ pc' = "done"
    /\ outcome' = "returned"
    /\ UNCHANGED <<ccVars, tpVars, locVars>>

-----------------------------------------------------------------------------
(* channel_checking, channel.py:53-100                                     *)

DevVals == {-1, 0}
MadVals == {0, 1}

\* bad_chn = np.argwhere(deviation < -thresh * mad).ravel().tolist()
BadSet(dev, m) == {i \in DOMAIN dev : dev[i] < -thresh * m}

\* good_chn = list(set(range(nch)) - set(bad_chn)); a set lists its elements
\* in an order the language does not fix
Threshold ==
    /\ pc = "threshold"
    /\ bad_chn' = SetToSortedSeq(BadSet(deviation, mad))
    /\ \E g \in Perms((0..(nch - 1)) \ BadSet(deviation, mad)) : good_chn' = g
    /\ pc' = IF continuity THEN "call1" ELSE "sort"
    /\ UNCHANGED <<outcome, nch, deviation, mad, continuity, adjacent,
                   toleration, pass, lst1, lst2, lst1_raw, lst2_raw, k>>
    /\ UNCHANGED <<tpVars, locVars>>

\* good_chn, bad_chn = _continuity_checking(good_chn, bad_chn, ...): the call
CallPass1 ==
    /\ pc = "call1"
    /\ Enter(good_chn, bad_chn, 1)
    /\ pc' = "loop"
    /\ UNCHANGED <<outcome, nch, deviation, mad, continuity, adjacent,
                   toleration, good_chn, bad_chn>>
    /\ UNCHANGED <<tpVars, locVars>>

\* ... its return, and the call
\* bad_chn, good_chn = _continuity_checking(bad_chn, good_chn, ...)
ReturnPass1 ==
    /\ pc = "loop"
    /\ pass = 1
    /\ k > Len(lst1_raw)
    /\ good_chn' = lst1
    /\ bad_chn' = lst2
    /\ Enter(lst2, lst1, 2)
    /\ UNCHANGED <<pc, outcome, nch, deviation, mad, continuity, adjacent,
                   toleration>>
    /\ UNCHANGED <<tpVars, locVars>>

ReturnPass2 ==
    /\ pc = "loop"
    /\ pass = 2
    /\ k > Len(lst1_raw)
    /\ bad_chn' = lst1
    /\ good_chn' = lst2
    /\ pc' = "sort"
    /\ UNCHANGED <<outcome, nch, deviation, mad, continuity, adjacent,
                   toleration, pass, lst1, lst2, lst1_raw, lst2_raw, k>>
    /\ UNCHANGED <<tpVars, locVars>>

\* bad_chn = np.sort(np.array(bad_chn)); good_chn = np.sort(...); return
SortReturn ==
    /\ pc = "sort"
    /\ bad_chn' = Sort(bad_chn)
    /\ good_chn' = Sort(good_chn)
    /\ pc' = "done"
    /\ outcome' = "returned"
    /\ UNCHANGED <<nch, deviation, mad, continuity, adjacent, toleration,
                   pass, lst1, lst2, lst1_raw, lst2_raw, k>>
    /\ UNCHANGED <<tpVars, locVars>>

-----------------------------------------------------------------------------
(* _horizontal_angle_change, _vertical_angle_change, channel.py:242-272    *)

\* azimuths Geodesic.WGS84.Inverse(...)['azi1'] can return, in degrees
AziVals == {-180, -90, 0, 90, 180}

\* inclinations np.arctan(...) / np.pi * 180 can return, in degrees
ThetaVals == {-60, 0, 60}

Sign(x) == IF x > 0 THEN 1 ELSE IF x < 0 THEN -1 ELSE 0

\* faulty variant of HeadingChange: the difference left unwrapped
HeadingChangeNoWrap(azi_s, azi_e) == azi_e - azi_s

\* dazi = azi_e - azi_s
\* if abs(dazi) > 180: dazi = -np.sign(dazi) * (360 - abs(dazi))
HeadingChange(azi_s, azi_e) ==
    LET dazi == azi_e - azi_s
    IN IF Abs(dazi) > 180 THEN -Sign(dazi) * (360 - Abs(dazi)) ELSE dazi

Zeros(n) == [j \in 0..(n - 1) |-> 0]

AbsArray(a) == [j \in DOMAIN a |-> Abs(a[j])]

-----------------------------------------------------------------------------
(* _local_maximum_indexes, channel.py:275-286                              *)

NoCall == [called |-> FALSE, data |-> <<>>, thresh |-> 0, err |-> "none",
           val |-> <<>>]

\* np.where(data > thresh)[0]
WhereAbove(data, th) == SetToSortedSeq({j \in DOMAIN data : data[j] > th})

\* list(np.where(np.diff(idx) > 1)[0] + 1): 0-based positions in idx
RunStarts(idx) ==
    SetToSortedSeq({q \in 1..(Len(idx) - 1) : idx[q + 1] - idx[q] > 1})

\* if len(idx) - 1 not in i: i.append(len(idx) - 1)
RunEnds(idx) ==
    IF (Len(idx) - 1) \in Range(RunStarts(idx)) THEN RunStarts(idx)
    ELSE Append(RunStarts(idx), Len(idx) - 1)

\* whether the 0-based (possibly negative) position p indexes the list s
InRange(s, p) == -Len(s) <= p /\ p < Len(s)

\* s[p] for a 0-based, possibly negative, position p
PyIndex(s, p) == IF p < 0 THEN s[Len(s) + p + 1] ELSE s[p + 1]

\* the indices of data[lo:hi], for lo, hi >= 0
SliceIdx(data, lo, hi) == {j \in DOMAIN data : lo <= j /\ j < hi}

\* np.argmax over a non-empty index set: the first index of the maximum
ArgMaxIn(data, S) ==
    CHOOSE j \in S : /\ \A m \in S : data[m] <= data[j]
                     /\ \A m \in S : data[m] = data[j] => j <= m

RECURSIVE LocalMaxLoop(_, _, _, _, _)
\* for e in i: max_idx.append(idx[b] + np.argmax(data[idx[b]:idx[e]])); b = e
LocalMaxLoop(data, idx, ilist, b, max_idx) ==
    IF ilist = <<>> THEN [err |-> "none", val |-> max_idx]
    ELSE LET e == Head(ilist)
         IN IF ~InRange(idx, b) \/ ~InRange(idx, e)
            THEN [err |-> "IndexError", val |-> <<>>]
            ELSE LET S == SliceIdx(data, PyIndex(idx, b), PyIndex(idx, e))
                 IN IF S = {}
                    THEN [err |-> "ValueError", val |-> <<>>]
                    ELSE LocalMaxLoop(data, idx, Tail(ilist), e,
                                      Append(max_idx, ArgMaxIn(data, S)))

LocalMaximumIndexes(data, th) ==
    LET idx == WhereAbove(data, th)
    IN LocalMaxLoop(data, idx, RunEnds(idx), 0, <<>>)

\* the call, as the history variable lm records it
CallLocalMax(data, th) ==
    LET r == LocalMaximumIndexes(data, th)
    IN [called |-> TRUE, data |-> data, thresh |-> th, err |-> r.err,
        val |-> r.val]

-----------------------------------------------------------------------------
(* turning_points, channel.py:289-334                                      *)

TpThreshVals == {5, 100}

\* cross-correlation values _xcorr returns, in hundredths
CcVals == {-100, 0, 50, 100}

\* twice np.median of a non-empty list
Median2(s) ==
    LET t == Sort(s)
        n == Len(s)
    IN IF n % 2 = 1 THEN 2 * t[(n + 1) \div 2]
       ELSE t[n \div 2] + t[n \div 2 + 1]

SeqOf(a) == [j \in 1..Cardinality(DOMAIN a) |-> a[j - 1]]

\* four times mad = np.median(abs(cc - median))
Mad4(c) == Median2([j \in 1..Len(c) |-> Abs(2 * c[j] - Median2(c))])

\* the indices of np.argwhere(cc < median - thresh * mad), cc 0-based
BelowSet(c, th) ==
    {j \in DOMAIN c :
        4 * c[j] < 2 * Median2(SeqOf(c)) - th * Mad4(SeqOf(c))}

\* one pass of the loop of _horizontal_angle_change
HorizontalStep ==
    /\ pc = "horizontal"
    /\ tp_i < tp_nch - 1
    /\ \E azi_s, azi_e \in AziVals :
          angle' = [angle EXCEPT ![tp_i] = HeadingChange(azi_s, azi_e)]
    /\ tp_i' = tp_i + 1
    /\ UNCHANGED <<pc, outcome, data_type, depth_info, tp_thresh, tp_nch, cc,
                   lm, turning_h, turning_v, tp_ret>>
    /\ UNCHANGED <<ccVars, locVars>>

\* turning_h = _local_maximum_indexes(abs(angle), thresh), and what follows:
\* return turning_h, or angle = np.zeros(nch) of _vertical_angle_change
HorizontalSearch ==
    /\ pc = "horizontal"
    /\ tp_i >= tp_nch - 1
    /\ LET r == CallLocalMax(AbsArray(angle), tp_thresh)
       IN /\ lm' = r
          /\ IF r.err # "none"
             THEN /\ outcome' = r.err
                  /\ pc' = "done"
                  /\ UNCHANGED <<turning_h, angle, tp_i>>
             ELSE /\ turning_h' = r.val
                  /\ IF depth_info
                     THEN /\ pc' = "vertical"
                          /\ angle' = Zeros(tp_nch)
                          /\ tp_i' = 1
                          /\ UNCHANGED outcome
                     ELSE /\ pc' = "done"
                          /\ outcome' = "returned"
                          /\ UNCHANGED <<angle, tp_i>>
    /\ UNCHANGED <<data_type, depth_info, tp_thresh, tp_nch, cc, turning_v,
                   tp_ret>>
    /\ UNCHANGED <<ccVars, locVars>>

\* one pass of the loop of _vertical_angle_change
VerticalStep ==
    /\ pc = "vertical"
    /\ tp_i < tp_nch - 1
    /\ \E theta_s, theta_e \in ThetaVals :
          angle' = [angle EXCEPT ![tp_i] = theta_e - theta_s]
    /\ tp_i' = tp_i + 1
    /\ UNCHANGED <<pc, outcome, data_type, depth_info, tp_thresh, tp_nch, cc,
                   lm, turning_h, turning_v, tp_ret>>
    /\ UNCHANGED <<ccVars, locVars>>

\* turning_v = _local_maximum_indexes(abs(angle), thresh)
\* return turning_h, turning_v
VerticalSearch ==
    /\ pc = "vertical"
    /\ tp_i >= tp_nch - 1
    /\ LET r == CallLocalMax(AbsArray(angle), tp_thresh)
       IN /\ lm' = r
          /\ pc' = "done"
          /\ IF r.err # "none"
             THEN /\ outcome' = r.err
                  /\ UNCHANGED turning_v
             ELSE /\ outcome' = "returned"
                  /\ turning_v' = r.val
    /\ UNCHANGED <<data_type, depth_info, tp_thresh, tp_nch, angle, tp_i, cc,
                   turning_h, tp_ret>>
    /\ UNCHANGED <<ccVars, locVars>>

\* cc[tp_i] = _xcorr(data[tp_i], data[tp_i + 1])
XcorrStep ==
    /\ pc = "xcorr"
    /\ tp_i < tp_nch - 1
    /\ \E c \in CcVals : cc' = [cc EXCEPT ![tp_i] = c]
    /\ tp_i' = tp_i + 1
    /\ UNCHANGED <<pc, outcome, data_type, depth_info, tp_thresh, tp_nch,
                   angle, lm, turning_h, turning_v, tp_ret>>
    /\ UNCHANGED <<ccVars, locVars>>

\* return np.argwhere(cc < median - thresh * mad)[0] - 0.5
WaveformReturn ==
    /\ pc = "xcorr"
    /\ tp_i >= tp_nch - 1
    /\ pc' = "done"
    /\ IF BelowSet(cc, tp_thresh) = {}
       THEN /\ outcome' = "IndexError"
            /\ UNCHANGED tp_ret
       ELSE /\ outcome' = "returned"
            /\ tp_ret' = <<2 * SetToSortedSeq(BelowSet(cc, tp_thresh))[1] - 1>>
    /\ UNCHANGED <<data_type, depth_info, tp_thresh, tp_nch, angle, tp_i, cc, lm,
                   turning_h, turning_v>>
    /\ UNCHANGED <<ccVars, locVars>>

\* raise ValueError('Data_type should be ...')
RaiseDataType ==
    /\ pc = "other"
    /\ pc' = "done"
    /\ outcome' = "ValueError"
    /\ UNCHANGED <<ccVars, tpVars, locVars>>

-----------------------------------------------------------------------------
(* Exact fractions <<num, den>>, den > 0, in lowest terms: the real values *)
(* the float arithmetic of the code approximates.                          *)

RECURSIVE GCD(_, _)
GCD(a, b) == IF b = 0 THEN a ELSE GCD(b, a % b)

Norm(q) ==
    LET sg == IF q[2] < 0 THEN -1 ELSE 1
        g == GCD(Abs(q[1]), Abs(q[2]))
    IN <<(sg * q[1]) \div g, (sg * q[2]) \div g>>

R(n) == <<n, 1>>

RAdd(p, q) == Norm(<<p[1] * q[2] + q[1] * p[2], p[2] * q[2]>>)

RSub(p, q) == Norm(<<p[1] * q[2] - q[1] * p[2], p[2] * q[2]>>)

RMul(p, q) == Norm(<<p[1] * q[1], p[2] * q[2]>>)

\* p / q, q # 0
RDiv(p, q) == Norm(<<p[1] * q[2], p[2] * q[1]>>)

RLt(p, q) == p[1] * q[2] < q[1] * p[2]

RLe(p, q) == p[1] * q[2] <= q[1] * p[2]

\* np.floor
RFloor(q) == q[1] \div q[2]

\* int(): truncation toward zero
RTrunc(q) == IF q[1] >= 0 THEN q[1] \div q[2] ELSE -((-q[1]) \div q[2])

(* int(l_start / d_interp + chn_res) in floating point: when the real      *)
(* value is a whole number m >= 1 the computed quotient can fall just      *)
(* below it and int() gives m - 1 (the "floor int problem" of              *)
(* channel.py:150; tx = [0, 5, 10], tn = [0, -1, 58] is such a case).       *)
TruncChoices(q) ==
    {RTrunc(q)} \cup (IF q[2] = 1 /\ q[1] >= 1 THEN {q[1] - 1} ELSE {})

-----------------------------------------------------------------------------
(* channel_location, channel.py:103-162                                    *)

\* 1e-6, as 1 / Tol
Tol == 1000000

ALen(a) == Cardinality(DOMAIN a)

\* a Python list or array of the elements of the sequence s, 0-based
Arr(s) == [p \in 0..(Len(s) - 1) |-> s[p + 1]]

IsSquare(n) == \E r \in 0..n : r * r = n

ISqrt(n) == CHOOSE r \in 0..n : r * r = n

\* l_track = np.sqrt(np.diff(tx) ** 2 + np.diff(ty) ** 2)
LTrack(x, y) ==
    [p \in 0..(ALen(x) - 2) |->
        ISqrt((x[p + 1] - x[p]) * (x[p + 1] - x[p])
              + (y[p + 1] - y[p]) * (y[p + 1] - y[p]))]

RECURSIVE CumSum(_, _)
CumSum(l, p) == IF p = 0 THEN 0 ELSE CumSum(l, p - 1) + l[p - 1]

\* l_track_cum = np.hstack(([0], np.cumsum(l_track)))
LTrackCum(x, y) == [p \in 0..(ALen(x) - 1) |-> CumSum(LTrack(x, y), p)]

\* idx_kp = np.where(tn >= 0)[0]
IdxKp(t) == SetToSortedSeq({p \in DOMAIN t : t[p][1] >= 0})

Entry(x, y, c, dp) == [x |-> x, y |-> y, chn |-> c, depth |-> dp]

\* interp_ch.append([[tx[idx_kp[0]], ty[idx_kp[0]], chn]])
FirstEntry(x, y, c) == Entry(R(x), R(y), c, 2)

\* chn = np.floor(tn[idx_kp[0]]); the first entry when chn is tn[idx_kp[0]]
Begin ==
    /\ pc = "cl_begin"
    /\ IF IdxKp(tn) = <<>>
       THEN /\ pc' = "done"
            /\ outcome' = "IndexError"
            /\ UNCHANGED <<cl_chn, interp_ch, interp_arc, seg_i>>
       ELSE LET k0 == IdxKp(tn)[1]
                c == RFloor(tn[k0])
            IN /\ cl_chn' = c
               /\ IF RLt(<<Abs(RSub(R(c), tn[k0])[1]), RSub(R(c), tn[k0])[2]>>,
                         <<1, Tol>>)
                  THEN /\ interp_ch' = <<FirstEntry(tx[k0], ty[k0], c)>>
                       /\ interp_arc' = <<[kind |-> "first", seg |-> 0,
                                           arc |-> R(LTrackCum(tx, ty)[k0])]>>
                  ELSE UNCHANGED <<interp_ch, interp_arc>>
               /\ seg_i' = 1
               /\ pc' = "cl_seg"
               /\ UNCHANGED outcome
    /\ UNCHANGED <<known_pt, track_pt, has_track, dx, caller, bound, zone, kx,
                   ky, kn, li_i, last_pt, tx, ty, tn, seg_interval, cl_j, l_res,
                   chn_res, d_interp, arr, ret>>
    /\ UNCHANGED <<ccVars, tpVars>>

\* d_interp = (l_track_cum[iend] - l_track_cum[istart]) / n_chn_kp
DInterp(x, y, t, istart, iend) ==
    RDiv(R(LTrackCum(x, y)[iend] - LTrackCum(x, y)[istart]),
         RSub(t[iend], t[istart]))

\* chn_res = tn[istart] - int(tn[istart])
ChnRes(t, istart) == RSub(t[istart], R(RTrunc(t[istart])))

\* the head of the loop over anchor pairs, and the lines before the loop
\* over the edges of a pair
SegmentStart ==
    /\ pc = "cl_seg"
    /\ seg_i < Len(IdxKp(tn))
    /\ LET istart == IdxKp(tn)[seg_i]
           iend == IdxKp(tn)[seg_i + 1]
       IN /\ d_interp' = DInterp(tx, ty, tn, istart, iend)
          /\ seg_interval' = Append(seg_interval,
                 <<tn[istart], tn[iend], DInterp(tx, ty, tn, istart, iend)>>)
          /\ l_res' = R(0)
          /\ chn_res' = ChnRes(tn, istart)
          /\ cl_j' = istart
    /\ pc' = "cl_edge"
    /\ UNCHANGED <<outcome, known_pt, track_pt, has_track, dx, caller, bound,
                   zone, kx, ky, kn, li_i, last_pt, tx, ty, tn, interp_ch,
                   interp_arc, cl_chn, seg_i, arr, ret>>
    /\ UNCHANGED <<ccVars, tpVars>>

\* np.interp(l, [0, l_edge], [a, b])
Interp(l, l_edge, a, b) ==
    IF RLe(l, R(0)) THEN R(a)
    ELSE IF RLe(R(l_edge), l) THEN R(b)
    ELSE RAdd(R(a), RMul(R(b - a), RDiv(l, R(l_edge))))

Clamp(l, l_edge) ==
    IF RLe(l, R(0)) THEN R(0) ELSE IF RLe(R(l_edge), l) THEN R(l_edge) ELSE l

\* l_new[m] = (m + 1 - chn_res) * d_interp - l_res, m = 0 .. n_chn_tp - 1
LNew(m, cres, d, lres) == RSub(RMul(RSub(R(m + 1), cres), d), lres)

\* l_res = l_start - n_chn_tp * d_interp
NewLRes(l_start, n, d) == RSub(l_start, RMul(R(n), d))

\* (d_interp - l_res) / d_interp < 1e-6
SnapFires(d, lres) == RLt(RDiv(RSub(d, lres), d), <<1, Tol>>)

\* the channel number of the entry the snap appends: int(tn[j + 1])
SnapChn(t, e) == RTrunc(t[e + 1])

\* the entries one edge appends when n_chn_tp = n, and their history
EdgeEntries(e, n, c0) ==
    [m \in 1..(IF n > 0 THEN n ELSE 0) |->
        LET l == LNew(m - 1, chn_res, d_interp, l_res)
            le == LTrack(tx, ty)[e]
        IN Entry(Interp(l, le, tx[e], tx[e + 1]),
                 Interp(l, le, ty[e], ty[e + 1]), c0 + m, 1)]

EdgeArcs(e, n) ==
    [m \in 1..(IF n > 0 THEN n ELSE 0) |->
        [kind |-> "interp", seg |-> seg_i,
         arc |-> RAdd(R(LTrackCum(tx, ty)[e]),
                      Clamp(LNew(m - 1, chn_res, d_interp, l_res),
                            LTrack(tx, ty)[e]))]]

\* one pass of the loop over the edges j = istart .. iend - 1 of a pair
EdgeStep ==
    /\ pc = "cl_edge"
    /\ cl_j < IdxKp(tn)[seg_i + 1]
    /\ LET l_start == RAdd(R(LTrack(tx, ty)[cl_j]), l_res)
       IN IF RLe(RMul(d_interp, RSub(R(1), chn_res)), l_start)
          THEN \E n_chn_tp \in TruncChoices(RAdd(RDiv(l_start, d_interp),
                                                 chn_res)) :
                 LET lr == NewLRes(l_start, n_chn_tp, d_interp)
                     ne == IF n_chn_tp > 0 THEN n_chn_tp ELSE 0
                 IN /\ chn_res' = R(0)
                    /\ IF SnapFires(d_interp, lr)
                       THEN /\ cl_chn' = cl_chn + ne + 1
                            /\ interp_ch' = interp_ch
                                 \o EdgeEntries(cl_j, n_chn_tp, cl_chn)
                                 \o <<Entry(R(tx[cl_j + 1]), R(ty[cl_j + 1]),
                                            SnapChn(tn, cl_j), 1)>>
                            /\ interp_arc' = interp_arc
                                 \o EdgeArcs(cl_j, n_chn_tp)
                                 \o <<[kind |-> "snap", seg |-> seg_i,
                                       arc |-> R(LTrackCum(tx, ty)[cl_j + 1])]>>
                            /\ l_res' = R(0)
                       ELSE /\ cl_chn' = cl_chn + ne
                            /\ interp_ch' = interp_ch
                                 \o EdgeEntries(cl_j, n_chn_tp, cl_chn)
                            /\ interp_arc' = interp_arc
                                 \o EdgeArcs(cl_j, n_chn_tp)
                            /\ l_res' = lr
          ELSE /\ l_res' = IF RLt(l_start, d_interp) THEN l_start ELSE l_res
               /\ UNCHANGED <<cl_chn, chn_res, interp_ch, interp_arc>>
    /\ cl_j' = cl_j + 1
    /\ IF cl_j + 1 = IdxKp(tn)[seg_i + 1]
       THEN /\ seg_i' = seg_i + 1
            /\ pc' = "cl_seg"
       ELSE UNCHANGED <<seg_i, pc>>
    /\ UNCHANGED <<outcome, known_pt, track_pt, has_track, dx, caller, bound,
                   zone, kx, ky, kn, li_i, last_pt, tx, ty, tn, seg_interval,
                   d_interp, arr, ret>>
    /\ UNCHANGED <<ccVars, tpVars>>

\* whether the appended lists differ in nesting: np.array cannot make a
\* rectangular array of them
Ragged(ic) == \E p, q \in DOMAIN ic : ic[p].depth # ic[q].depth

\* the array np.array(interp_ch) is when it is built: shape (0,), (1, 1, 3)
\* or (n, 3), or a 1-d array of list objects
ArrayKind(ic) ==
    IF ic = <<>> THEN "empty"
    ELSE IF Ragged(ic) THEN "object"
    ELSE IF ic[1].depth = 2 THEN "3d" ELSE "2d"

\* return np.array(seg_interval), np.array(interp_ch)
ArrayReturn ==
    /\ pc = "cl_seg"
    /\ seg_i >= Len(IdxKp(tn))
    /\ arr' = ArrayKind(interp_ch)
    /\ IF caller = "direct"
       THEN /\ pc' = "done"
            /\ outcome' = "returned"
            /\ ret' = "array"
       ELSE /\ pc' = "li_finish"
            /\ UNCHANGED <<outcome, ret>>
    /\ UNCHANGED <<known_pt, track_pt, has_track, dx, caller, bound, zone, kx,
                   ky, kn, li_i, last_pt, tx, ty, tn, interp_ch, interp_arc,
                   seg_interval, cl_chn, seg_i, cl_j, l_res, chn_res, d_interp>>
    /\ UNCHANGED <<ccVars, tpVars>>

\* np.array(interp_ch) on lists of different nesting: numpy >= 1.24 raises
\* ValueError (inhomogeneous shape); older versions build the object array
ArrayRaise ==
    /\ pc = "cl_seg"
    /\ seg_i >= Len(IdxKp(tn))
    /\ Ragged(interp_ch)
    /\ pc' = "done"
    /\ outcome' = "ValueError"
    /\ UNCHANGED locVars
    /\ UNCHANGED <<ccVars, tpVars>>

-----------------------------------------------------------------------------
(* Inputs of channel_location.                                             *)

MaxX == 2
MaxY == 1
MaxTrack == 3
MaxChn == 3
ChnDen == 2

Points == (0..MaxX) \X (0..MaxY)

Dist2(p, q) == (p[1] - q[1]) * (p[1] - q[1]) + (p[2] - q[2]) * (p[2] - q[2])

\* a track: consecutive vertices differ and every edge has a whole length
Polylines(n) ==
    {s \in [1..n -> Points] :
        \A p \in 1..(n - 1) : s[p] # s[p + 1] /\ IsSquare(Dist2(s[p], s[p + 1]))}

\* channel numbers 0, 1/ChnDen, 2/ChnDen, ... up to MaxChn
ChnVals == {Norm(<<h, ChnDen>>) : h \in 0..(MaxChn * ChnDen)}

\* tn = np.zeros(len(track_pt)) - 1: the mark of an unknown channel number
Unknown == <<-1, 1>>

\* channel numbers along a track of n vertices: at least one anchor, the
\* anchors strictly increasing
TnChoices(n) ==
    {t \in [0..(n - 1) -> {Unknown} \cup ChnVals] :
        /\ \E p \in 0..(n - 1) : t[p] # Unknown
        /\ \A p, q \in 0..(n - 1) :
              (p < q /\ t[p] # Unknown /\ t[q] # Unknown) => RLt(t[p], t[q])}

IdleLoc ==
    /\ known_pt = <<>>
    /\ track_pt = <<>>
    /\ has_track = FALSE
    /\ dx = 0
    /\ caller = "none"
    /\ bound = {}
    /\ zone = 0
    /\ kx = <<>>
    /\ ky = <<>>
    /\ kn = <<>>
    /\ li_i = 0
    /\ last_pt = 0
    /\ tx = <<>>
    /\ ty = <<>>
    /\ tn = <<>>
    /\ interp_ch = <<>>
    /\ interp_arc = <<>>
    /\ seg_interval = <<>>
    /\ cl_chn = 0
    /\ seg_i = 0
    /\ cl_j = 0
    /\ l_res = R(0)
    /\ chn_res = R(0)
    /\ d_interp = R(0)
    /\ arr = "none"
    /\ ret = "none"

-----------------------------------------------------------------------------
(* location_interpolation, channel.py:165-229                              *)

\* DASProj = Proj(proj='utm', zone=zone, ellps='WGS84'): the planar map, as
\* the similarity it is near the central meridian of the zone: ProjScale
\* planar units per coordinate unit, false easting 500000
ProjScale == 2

CentralMeridian(z) == 6 * z - 183

DASProj(z, lon, lat) ==
    <<500000 + ProjScale * (lon - CentralMeridian(z)), ProjScale * lat>>

\* DASProj(x, y, inverse=True), on exact fractions
DASProjInverse(z, x, y) ==
    <<RAdd(RDiv(RSub(x, R(500000)), R(ProjScale)), R(CentralMeridian(z))),
      RDiv(y, R(ProjScale))>>

SeqMax(a) == CHOOSE v \in Range(a) : \A w \in Range(a) : w <= v

SeqMin(a) == CHOOSE v \in Range(a) : \A w \in Range(a) : v <= w

\* zone = np.floor((max(klo) + min(klo)) / 2 / 6).astype(int) + 31
Zone(klo) == RFloor(<<SeqMax(klo) + SeqMin(klo), 12>>) + 31

Column(pts, c) == [p \in 0..(Len(pts) - 1) |-> pts[p + 1][c]]

\* the lines up to the choice between the two ways of interpolating: the
\* projection of the known points and, without a track, the call
\* channel_location(kx, ky, kn)
Project ==
    /\ pc = "li_start"
    /\ kn' = Column(known_pt, 3)
    /\ IF data_type = "lonlat"
       THEN /\ zone' = Zone(Column(known_pt, 1))
            /\ kx' = [p \in 0..(Len(known_pt) - 1) |->
                        DASProj(Zone(Column(known_pt, 1)), known_pt[p + 1][1],
                                known_pt[p + 1][2])[1]]
            /\ ky' = [p \in 0..(Len(known_pt) - 1) |->
                        DASProj(Zone(Column(known_pt, 1)), known_pt[p + 1][1],
                                known_pt[p + 1][2])[2]]
            /\ bound' = {"klo", "kla", "kn", "zone", "DASProj", "kx", "ky"}
       ELSE /\ kx' = Column(known_pt, 1)
            /\ ky' = Column(known_pt, 2)
            /\ bound' = {"kx", "ky", "kn"}
            /\ UNCHANGED zone
    /\ IF has_track
       THEN /\ pc' = "li_track"
            /\ UNCHANGED <<tx, ty, tn>>
       ELSE /\ pc' = "cl_begin"
            /\ tx' = kx'
            /\ ty' = ky'
            /\ tn' = kn'
    /\ UNCHANGED <<outcome, known_pt, track_pt, has_track, dx, caller, li_i,
                   last_pt, interp_ch, interp_arc, seg_interval, cl_chn, seg_i,
                   cl_j, l_res, chn_res, d_interp, arr, ret>>
    /\ UNCHANGED <<ccVars, tpVars>>

\* the lines from the projection of the track to K = len(klo); klo is bound
\* only on the 'lonlat' path
TrackSetup ==
    /\ pc = "li_track"
    /\ IF data_type = "lonlat"
       THEN /\ tx' = [p \in 0..(Len(track_pt) - 1) |->
                        DASProj(zone, track_pt[p + 1][1], track_pt[p + 1][2])[1]]
            /\ ty' = [p \in 0..(Len(track_pt) - 1) |->
                        DASProj(zone, track_pt[p + 1][1], track_pt[p + 1][2])[2]]
       ELSE /\ tx' = Column(track_pt, 1)
            /\ ty' = Column(track_pt, 2)
    /\ tn' = [p \in 0..(Len(track_pt) - 1) |-> R(-1)]
    /\ IF "klo" \in bound
       THEN /\ li_i' = 0
            /\ pc' = "li_stamp"
            /\ UNCHANGED outcome
       ELSE /\ pc' = "done"
            /\ outcome' = "NameError"
            /\ UNCHANGED li_i
    /\ UNCHANGED <<known_pt, track_pt, has_track, dx, caller, bound, zone, kx,
                   ky, kn, last_pt, interp_ch, interp_arc, seg_interval,
                   cl_chn, seg_i, cl_j, l_res, chn_res, d_interp, arr, ret>>
    /\ UNCHANGED <<ccVars, tpVars>>

\* d[i, p] squared: the distance of known point i to track vertex p
DSquared(i, p) ==
    (tx[p] - kx[i]) * (tx[p] - kx[i]) + (ty[p] - ky[i]) * (ty[p] - ky[i])

\* idx[i] = np.argmin(d, axis=1)[i]: the first vertex at the least distance
Nearest(i) ==
    CHOOSE p \in DOMAIN tx :
        /\ \A q \in DOMAIN tx : DSquared(i, p) <= DSquared(i, q)
        /\ \A q \in DOMAIN tx : DSquared(i, q) = DSquared(i, p) => p <= q

\* d[i, idx[i]] < dx, for a distance given by its square
WithinDx(d2, x) == x > 0 /\ d2 < x * x

\* one pass of the loop for i in range(K)
StampStep ==
    /\ pc = "li_stamp"
    /\ li_i < ALen(kx)
    /\ IF WithinDx(DSquared(li_i, Nearest(li_i)), dx)
       THEN /\ tn' = [tn EXCEPT ![Nearest(li_i)] = kn[li_i]]
            /\ last_pt' = Nearest(li_i)
            /\ bound' = bound \cup {"last_pt"}
       ELSE UNCHANGED <<tn, last_pt, bound>>
    /\ li_i' = li_i + 1
    /\ UNCHANGED <<pc, outcome, known_pt, track_pt, has_track, dx, caller,
                   zone, kx, ky, kn, tx, ty, interp_ch, interp_arc,
                   seg_interval, cl_chn, seg_i, cl_j, l_res, chn_res, d_interp,
                   arr, ret>>
    /\ UNCHANGED <<ccVars, tpVars>>

Prefix(a, n) == [p \in 0..(n - 1) |-> a[p]]

\* try: tx, ty, tn = tx[:last_pt + 1], ...; except NameError: return None;
\* then the call channel_location(tx, ty, tn)
Truncate ==
    /\ pc = "li_stamp"
    /\ li_i >= ALen(kx)
    /\ IF "last_pt" \in bound
       THEN /\ tx' = Prefix(tx, last_pt + 1)
            /\ ty' = Prefix(ty, last_pt + 1)
            /\ tn' = Prefix(tn, last_pt + 1)
            /\ pc' = "cl_begin"
            /\ UNCHANGED <<outcome, ret>>
       ELSE /\ pc' = "done"
            /\ outcome' = "returned"
            /\ ret' = "None"
            /\ UNCHANGED <<tx, ty, tn>>
    /\ UNCHANGED <<known_pt, track_pt, has_track, dx, caller, bound, zone, kx,
                   ky, kn, li_i, last_pt, interp_ch, interp_arc, seg_interval,
                   cl_chn, seg_i, cl_j, l_res, chn_res, d_interp, arr>>
    /\ UNCHANGED <<ccVars, tpVars>>

\* interp_ch[:, 1], interp_ch[:, 0] = DASProj(interp_ch[:, 0],
\*                                            interp_ch[:, 1], inverse=True)
BackProject(ic) ==
    [p \in DOMAIN ic |->
        LET ll == DASProjInverse(zone, ic[p].x, ic[p].y)
        IN [ic[p] EXCEPT !.x = ll[2], !.y = ll[1]]]

\* the lines after the interpolation: the projection back and the return;
\* interp_ch[:, 1] needs an array of two dimensions with three columns
Finish ==
    /\ pc = "li_finish"
    /\ pc' = "done"
    /\ IF data_type = "lonlat"
       THEN IF arr = "2d"
            THEN /\ interp_ch' = BackProject(interp_ch)
                 /\ outcome' = "returned"
                 /\ ret' = "array"
            ELSE /\ outcome' = "IndexError"
                 /\ UNCHANGED <<interp_ch, ret>>
       ELSE /\ outcome' = "returned"
            /\ ret' = "array"
            /\ UNCHANGED interp_ch
    /\ UNCHANGED <<known_pt, track_pt, has_track, dx, caller, bound, zone, kx,
                   ky, kn, li_i, last_pt, tx, ty, tn, interp_arc, seg_interval,
                   cl_chn, seg_i, cl_j, l_res, chn_res, d_interp, arr>>
    /\ UNCHANGED <<ccVars, tpVars>>

-----------------------------------------------------------------------------
(* Inputs of location_interpolation.                                       *)

MaxKnown == 2
MaxKnownChn == 2
MaxDx == 3

\* known points without a track: they are the track themselves
KnownTracks ==
    UNION {{[p \in 1..n |-> <<s[p][1], s[p][2], t[p - 1]>>] :
               s \in Polylines(n), t \in {u \in TnChoices(n) :
                                             \A p \in 0..(n - 1) : u[p] # Unknown}} :
           n \in 1..MaxTrack}

\* known points beside a track: any order, different channel numbers
KnownBeside ==
    UNION {{kp \in [1..n -> Points \X {R(c) : c \in 0..MaxKnownChn}] :
               \A p, q \in 1..n : p # q => kp[p][2] # kp[q][2]} :
           n \in 1..MaxKnown}

FlatKnown(kp) ==
    [p \in DOMAIN kp |-> <<kp[p][1][1], kp[p][1][2], kp[p][2]>>]

\* the scenario [[0, 0, 0], [0, 100, 10]]
Scenario100 == <<<<0, 0, R(0)>>, <<0, 100, R(10)>>>>

-----------------------------------------------------------------------------
(* Specifications.                                                         *)

\* the variables of the functions a specification does not run
IdleCheck ==
    /\ nch = 0
    /\ deviation = <<>>
    /\ mad = 0
    /\ continuity = FALSE
    /\ adjacent = 0
    /\ toleration = 0
    /\ good_chn = <<>>
    /\ bad_chn = <<>>
    /\ pass = 0
    /\ lst1 = <<>>
    /\ lst2 = <<>>
    /\ lst1_raw = <<>>
    /\ lst2_raw = <<>>
    /\ k = 1

IdleTurn ==
    /\ data_type = "none"
    /\ depth_info = FALSE
    /\ tp_thresh = 0
    /\ tp_nch = 0
    /\ angle = <<>>
    /\ tp_i = 0
    /\ cc = <<>>
    /\ lm = NoCall
    /\ turning_h = <<>>
    /\ turning_v = <<>>
    /\ tp_ret = <<>>

InitCont ==
    /\ pc = "loop"
    /\ outcome = "running"
    /\ nch = NCh
    /\ deviation = <<>>
    /\ mad = 0
    /\ continuity = TRUE
    /\ adjacent \in 0..MaxAdjacent
    /\ toleration \in 0..MaxToleration
    /\ good_chn = <<>>
    /\ bad_chn = <<>>
    /\ pass = 0
    /\ lst1 \in ListsOver(0..(NCh - 1))
    /\ lst2 \in ListsOver((0..(NCh - 1)) \ Range(lst1))
    /\ lst1_raw = lst1
    /\ lst2_raw = lst2
    /\ k = 1
    /\ IdleTurn
    /\ IdleLoc

NextCont == ContinuityStep \/ ContinuityReturn

SpecCont == InitCont /\ [][NextCont]_vars

InitCheck ==
    /\ pc = "threshold"
    /\ outcome = "running"
    /\ nch \in 1..NCh
    /\ deviation \in [0..(nch - 1) -> DevVals]
    /\ mad \in MadVals
    /\ continuity \in BOOLEAN
    /\ adjacent \in 0..MaxAdjacent
    /\ toleration \in 0..MaxToleration
    /\ good_chn = <<>>
    /\ bad_chn = <<>>
    /\ pass = 0
    /\ lst1 = <<>>
    /\ lst2 = <<>>
    /\ lst1_raw = <<>>
    /\ lst2_raw = <<>>
    /\ k = 1
    /\ IdleTurn
    /\ IdleLoc

NextCheck ==
    \/ Threshold
    \/ CallPass1
    \/ ContinuityStep
    \/ ReturnPass1
    \/ ReturnPass2
    \/ SortReturn

SpecCheck == InitCheck /\ [][NextCheck]_vars

InitTurn ==
    /\ outcome = "running"
    /\ data_type \in {"coordinate", "waveform", "other"}
    /\ pc = CASE data_type = "coordinate" -> "horizontal"
              [] data_type = "waveform" -> "xcorr"
              [] OTHER -> "other"
    /\ depth_info \in (IF data_type = "coordinate" THEN BOOLEAN ELSE {FALSE})
    /\ tp_thresh \in TpThreshVals
    /\ tp_nch \in 2..NChTurn
    /\ angle = IF data_type = "coordinate" THEN Zeros(tp_nch) ELSE <<>>
    /\ tp_i = IF data_type = "waveform" THEN 0 ELSE 1
    /\ cc = IF data_type = "waveform" THEN Zeros(tp_nch - 1) ELSE <<>>
    /\ lm = NoCall
    /\ turning_h = <<>>
    /\ turning_v = <<>>
    /\ tp_ret = <<>>
    /\ IdleCheck
    /\ IdleLoc

NextTurn ==
    \/ HorizontalStep
    \/ HorizontalSearch
    \/ VerticalStep
    \/ VerticalSearch
    \/ XcorrStep
    \/ WaveformReturn
    \/ RaiseDataType

SpecTurn == InitTurn /\ [][NextTurn]_vars

InitChanLoc ==
    /\ pc = "cl_begin"
    /\ outcome = "running"
    /\ \E n \in 1..MaxTrack :
          /\ \E s \in Polylines(n) :
                /\ tx = [p \in 0..(n - 1) |-> s[p + 1][1]]
                /\ ty = [p \in 0..(n - 1) |-> s[p + 1][2]]
          /\ tn \in TnChoices(n)
    /\ known_pt = <<>>
    /\ track_pt = <<>>
    /\ has_track = FALSE
    /\ dx = 0
    /\ caller = "direct"
    /\ bound = {}
    /\ zone = 0
    /\ kx = <<>>
    /\ ky = <<>>
    /\ kn = <<>>
    /\ li_i = 0
    /\ last_pt = 0
    /\ interp_ch = <<>>
    /\ interp_arc = <<>>
    /\ seg_interval = <<>>
    /\ cl_chn = 0
    /\ seg_i = 0
    /\ cl_j = 0
    /\ l_res = R(0)
    /\ chn_res = R(0)
    /\ d_interp = R(0)
    /\ arr = "none"
    /\ ret = "none"
    /\ IdleCheck
    /\ IdleTurn

NextChanLoc ==
    \/ Begin
    \/ SegmentStart
    \/ EdgeStep
    \/ ArrayReturn
    \/ ArrayRaise

SpecChanLoc == InitChanLoc /\ [][NextChanLoc]_vars

InitLoc ==
    /\ pc = "li_start"
    /\ outcome = "running"
    /\ data_type \in {"lonlat", "xy"}
    /\ has_track \in BOOLEAN
    /\ IF has_track
       THEN /\ \E kp \in KnownBeside : known_pt = FlatKnown(kp)
            /\ track_pt \in UNION {Polylines(n) : n \in 2..MaxTrack}
            /\ dx \in 0..MaxDx
       ELSE /\ known_pt \in KnownTracks
                  \cup (IF data_type = "xy" THEN {Scenario100} ELSE {})
            /\ track_pt = <<>>
            /\ dx = 0
    /\ caller = "li"
    /\ bound = {}
    /\ zone = 0
    /\ kx = <<>>
    /\ ky = <<>>
    /\ kn = <<>>
    /\ li_i = 0
    /\ last_pt = 0
    /\ tx = <<>>
    /\ ty = <<>>
    /\ tn = <<>>
    /\ interp_ch = <<>>
    /\ interp_arc = <<>>
    /\ seg_interval = <<>>
    /\ cl_chn = 0
    /\ seg_i = 0
    /\ cl_j = 0
    /\ l_res = R(0)
    /\ chn_res = R(0)
    /\ d_interp = R(0)
    /\ arr = "none"
    /\ ret = "none"
    /\ depth_info = FALSE
    /\ tp_thresh = 0
    /\ tp_nch = 0
    /\ angle = <<>>
    /\ tp_i = 0
    /\ cc = <<>>
    /\ lm = NoCall
    /\ turning_h = <<>>
    /\ turning_v = <<>>
    /\ tp_ret = <<>>
    /\ IdleCheck

NextLoc ==
    \/ Project
    \/ TrackSetup
    \/ StampStep
    \/ Truncate
    \/ Begin
    \/ SegmentStart
    \/ EdgeStep
    \/ ArrayReturn
    \/ ArrayRaise
    \/ Finish

SpecLoc == InitLoc /\ [][NextLoc]_vars

-----------------------------------------------------------------------------
(* C1: the good and bad lists returned by channel_checking partition       *)
(* 0..nch-1: no index in both, none missing, none twice in either list,    *)
(* with continuity enabled or disabled.                                    *)
C1_Partition ==
    (pc = "done") =>
        /\ Range(good_chn) \cap Range(bad_chn) = {}
        /\ Range(good_chn) \cup Range(bad_chn) = 0..(nch - 1)
        /\ NoDup(good_chn)
        /\ NoDup(bad_chn)

\* a run with continuity on in which both passes moved a channel
C1_Witness ==
    /\ pc = "done"
    /\ continuity
    /\ Range(bad_chn) # BadSet(deviation, mad)
    /\ Len(lst2) > Len(lst2_raw)
    /\ bad_chn # <<>>
    /\ good_chn # <<>>

(* C2: one call of _continuity_checking on disjoint duplicate-free lists   *)
(* is a pure move: the total length and the union are kept and the lists   *)
(* stay disjoint.                                                          *)
C2_PureMove ==
    (pc = "done") =>
        /\ Len(lst1) + Len(lst2) = Len(lst1_raw) + Len(lst2_raw)
        /\ Range(lst1) \cup Range(lst2) = Range(lst1_raw) \cup Range(lst2_raw)
        /\ Range(lst1) \cap Range(lst2) = {}

\* a call that moved some channels and kept others
C2_Witness ==
    /\ pc = "done"
    /\ Len(lst2) > Len(lst2_raw)
    /\ lst1 # <<>>
    /\ lst2_raw # <<>>

-----------------------------------------------------------------------------
(* The maximal contiguous runs of indices above the threshold.             *)

RunStartSet(data, th) ==
    {jj \in DOMAIN data : data[jj] > th /\ (jj = 0 \/ data[jj - 1] <= th)}

\* the run that starts at index s
RunFrom(data, th, s) ==
    {jj \in DOMAIN data : jj >= s /\ \A m \in s..jj : data[m] > th}

\* the p-th run, p = 1, 2, ...
NthRun(data, th, p) ==
    RunFrom(data, th, SetToSortedSeq(RunStartSet(data, th))[p])

(* C6: in waveform mode, when no cross-correlation value is below          *)
(* median - thresh*MAD, turning_points returns an empty break list and     *)
(* does not fail.                                                          *)
C6_EmptyBreakList ==
    (pc = "done" /\ data_type = "waveform" /\ BelowSet(cc, tp_thresh) = {}) =>
        (outcome = "returned" /\ tp_ret = <<>>)

(* C7: the local-maximum search returns exactly one index per maximal      *)
(* contiguous run of indices above the threshold: an empty list when there *)
(* is no run, one entry for a run of length one.                           *)
C7_OnePerRun ==
    lm.called =>
        /\ lm.err = "none"
        /\ Len(lm.val) = Cardinality(RunStartSet(lm.data, lm.thresh))
        /\ \A p \in 1..Len(lm.val) : lm.val[p] \in NthRun(lm.data, lm.thresh, p)

(* C9: every index the local-maximum search returns lies inside its own    *)
(* run and carries the maximum of that whole run.                          *)
C9_RunMaximum ==
    (lm.called /\ lm.err = "none") =>
        \A p \in 1..Len(lm.val) :
            /\ p <= Cardinality(RunStartSet(lm.data, lm.thresh))
            /\ lm.val[p] \in NthRun(lm.data, lm.thresh, p)
            /\ \A jj \in NthRun(lm.data, lm.thresh, p) :
                  lm.data[jj] <= lm.data[lm.val[p]]

-----------------------------------------------------------------------------
\* the anchors of the track have strictly increasing channel numbers
AnchorsIncreasing ==
    \A p, q \in DOMAIN tn :
        (p < q /\ tn[p][1] >= 0 /\ tn[q][1] >= 0) => RLt(tn[p], tn[q])

(* C3: for a track whose anchors have strictly increasing channel numbers, *)
(* the channel numbers of the interpolated sequence channel_location       *)
(* returns are strictly increasing from one entry to the next.             *)
C3_StrictlyIncreasing ==
    (arr # "none" /\ AnchorsIncreasing) =>
        \A p \in 1..(Len(interp_ch) - 1) :
            interp_ch[p].chn < interp_ch[p + 1].chn

\* the arc length, from the start of the track, of the last entry placed in
\* the current anchor pair, or of the pair's start anchor
LastPlacedArc ==
    LET S == {p \in DOMAIN interp_arc : interp_arc[p].seg = seg_i}
    IN IF S = {} THEN R(LTrackCum(tx, ty)[IdxKp(tn)[seg_i]])
       ELSE interp_arc[CHOOSE p \in S : \A q \in S : q <= p].arc

(* C8: every channel c emitted for an anchor pair with start channel s and *)
(* spacing d_interp lies at arc length (c - s) * d_interp from the start   *)
(* anchor, and the leftover carried from one edge to the next is the       *)
(* distance from the last placed channel to the end of the edge.           *)
C8_ArcPlacement ==
    /\ \A p \in DOMAIN interp_ch :
          interp_arc[p].kind # "first" =>
              LET istart == IdxKp(tn)[interp_arc[p].seg]
              IN RSub(interp_arc[p].arc, R(LTrackCum(tx, ty)[istart]))
                   = RMul(RSub(R(interp_ch[p].chn), tn[istart]),
                          seg_interval[interp_arc[p].seg][3])
    /\ (pc = "cl_edge") =>
          l_res = RSub(R(LTrackCum(tx, ty)[cl_j]), LastPlacedArc)

-----------------------------------------------------------------------------
\* the known points carry integer channel numbers c_0 < c_1 < ... < c_k
KnownIntegerIncreasing ==
    /\ \A p \in DOMAIN known_pt : known_pt[p][3][2] = 1
    /\ \A p \in 1..(Len(known_pt) - 1) :
          known_pt[p][3][1] < known_pt[p + 1][3][1]

\* the place of channel c on the polyline of the known points: on the edge
\* between its two anchors, at the fraction of the edge its number gives
EvenlySpaced(c) ==
    IF Len(known_pt) = 1 THEN <<R(known_pt[1][1]), R(known_pt[1][2])>>
    ELSE LET a == CHOOSE a \in 1..(Len(known_pt) - 1) :
                     /\ known_pt[a][3][1] <= c
                     /\ c <= known_pt[a + 1][3][1]
             f == <<c - known_pt[a][3][1],
                    known_pt[a + 1][3][1] - known_pt[a][3][1]>>
         IN <<RAdd(R(known_pt[a][1]),
                   RMul(R(known_pt[a + 1][1] - known_pt[a][1]), f)),
              RAdd(R(known_pt[a][2]),
                   RMul(R(known_pt[a + 1][2] - known_pt[a][2]), f))>>

(* C4: in 'xy' mode without a track, for known points with integer channel *)
(* numbers c_0 < ... < c_k, location_interpolation returns one entry for   *)
(* every integer channel from c_0 to c_k, the first at the first known     *)
(* point and the others evenly spaced between their anchors; for           *)
(* [[0,0,0],[0,100,10]] these are x = 0, y = 0,10,...,100, channels 0..10. *)
C4_EveryChannelOnce ==
    (pc = "done" /\ caller = "li" /\ data_type = "xy" /\ ~has_track
        /\ KnownIntegerIncreasing) =>
        /\ outcome = "returned"
        /\ ret = "array"
        /\ arr = "2d"
        /\ Len(interp_ch) = known_pt[Len(known_pt)][3][1] - known_pt[1][3][1] + 1
        /\ \A p \in DOMAIN interp_ch :
              /\ interp_ch[p].chn = known_pt[1][3][1] + p - 1
              /\ <<interp_ch[p].x, interp_ch[p].y>>
                   = EvenlySpaced(known_pt[1][3][1] + p - 1)
        /\ known_pt = Scenario100 =>
              /\ Len(interp_ch) = 11
              /\ \A p \in DOMAIN interp_ch :
                    /\ interp_ch[p].x = R(0)
                    /\ interp_ch[p].y = R(10 * (p - 1))
                    /\ interp_ch[p].chn = p - 1

\* no known point lies within dx of a track vertex, in the planar
\* coordinates the distances are taken in
NoneWithinDx ==
    \A p \in DOMAIN known_pt : \A q \in DOMAIN track_pt :
        (IF data_type = "lonlat" THEN ProjScale * ProjScale ELSE 1)
            * Dist2(<<known_pt[p][1], known_pt[p][2]>>, track_pt[q]) > dx * dx

(* C5: given track points and a dx such that no known point lies within dx *)
(* of its nearest track vertex, location_interpolation returns None and    *)
(* raises no exception, in mode 'xy' as well as in mode 'lonlat'.          *)
C5_NoneWhenUnreachable ==
    (pc = "done" /\ caller = "li" /\ has_track /\ NoneWithinDx) =>
        /\ outcome = "returned"
        /\ ret = "None"

(* C10: a pass of the stamping loop discards the known point only when the *)
(* distance to its nearest track vertex exceeds dx; at a distance less     *)
(* than or equal to dx it stamps that vertex's slot with its channel       *)
(* number.                                                                 *)
C10_StampUnlessBeyondDx ==
    [][(pc = "li_stamp" /\ li_i' = li_i + 1) =>
          IF DSquared(li_i, Nearest(li_i)) <= dx * dx
          THEN tn' = [tn EXCEPT ![Nearest(li_i)] = kn[li_i]]
          ELSE tn' = tn]_vars

-----------------------------------------------------------------------------
\* the number of elements of the list l within adj of chn, both ends included
CountNear(l, chn, adj) == Cardinality({a \in Range(l) : Abs(a - chn) <= adj})

(* C11: a pass of _continuity_checking scans the snapshot of set_a taken   *)
(* at entry; an index moves from set_a to set_b if and only if the number  *)
(* of elements of set_b at that moment (the original ones and those moved  *)
(* earlier in the pass) within adjacent of it, inclusive, is at least      *)
(* 2*adjacent + 1 - toleration; no original element of set_b leaves it.    *)
C11_MoveIffCount ==
    /\ [](/\ Range(lst2_raw) \subseteq Range(lst2)
          /\ Range(lst2) \ Range(lst2_raw)
                \subseteq {lst1_raw[p] : p \in 1..(k - 1)})
    /\ [][(pc = "loop" /\ k' = k + 1) =>
             /\ lst1_raw' = lst1_raw
             /\ IF CountNear(lst2, lst1_raw[k], adjacent)
                      >= 2 * adjacent + 1 - toleration
                THEN /\ Range(lst1') = Range(lst1) \ {lst1_raw[k]}
                     /\ Range(lst2') = Range(lst2) \cup {lst1_raw[k]}
                ELSE /\ lst1' = lst1
                     /\ lst2' = lst2]_vars

\* the end of a pass in which one index stayed and another moved only
\* thanks to an index moved before it in the same pass
C11_Witness ==
    /\ pc = "loop"
    /\ k > Len(lst1_raw)
    /\ lst1 # <<>>
    /\ \E c \in Range(lst2) \ Range(lst2_raw) :
          CountNear(lst2_raw, c, adjacent) < 2 * adjacent + 1 - toleration

-----------------------------------------------------------------------------
(* C12, as stated: for azimuths in [-180, 180] the heading change stored   *)
(* by _horizontal_angle_change lies in (-180, 180]: never -180 and never   *)
(* outside the interval.                                                   *)
C12_HalfOpenInterval ==
    (pc = "horizontal") =>
        \A p \in DOMAIN angle : -180 < angle[p] /\ angle[p] <= 180

(* C12, amended: for azimuths in [-180, 180] the heading change stored by  *)
(* _horizontal_angle_change lies in the closed interval [-180, 180]; it is *)
(* never outside the interval, and both ends occur.                        *)
C12_ClosedInterval ==
    (pc = "horizontal") =>
        \A p \in DOMAIN angle : -180 <= angle[p] /\ angle[p] <= 180

\* a track with a heading change stored as -180 and one stored as 180
C12_Witness ==
    /\ pc = "horizontal"
    /\ tp_i >= tp_nch - 1
    /\ \E p \in DOMAIN angle : angle[p] = -180
    /\ \E p \in DOMAIN angle : angle[p] = 180

-----------------------------------------------------------------------------
(* C13: whenever the snap branch of channel_location fires, the entry it   *)
(* emits has the position and the channel number of the known end anchor   *)
(* of the current anchor pair, also when the edge that triggers the snap   *)
(* ends at a vertex with unknown channel number.                           *)
C13_SnapIsEndAnchor ==
    \A p \in DOMAIN interp_ch :
        interp_arc[p].kind = "snap" =>
            LET iend == IdxKp(tn)[interp_arc[p].seg + 1]
            IN /\ R(interp_ch[p].chn) = tn[iend]
               /\ interp_ch[p].x = R(tx[iend])
               /\ interp_ch[p].y = R(ty[iend])

-----------------------------------------------------------------------------
(* C14: for known points given in any order, the truncation of the track   *)
(* in location_interpolation removes only vertices after every stamped     *)
(* vertex: each stamped vertex is still in the track passed to             *)
(* channel_location, and the last vertex of that track is a stamped one.   *)
C14_TruncationKeepsStamped ==
    [][(pc = "li_stamp" /\ pc' = "cl_begin") =>
          /\ \A p \in DOMAIN tn :
                tn[p] # Unknown => (p \in DOMAIN tn' /\ tn'[p] = tn[p])
          /\ tn'[ALen(tn') - 1] # Unknown]_vars

=============================================================================
